---------------------------- MODULE Spec2Model ----------------------------
(***************************************************************************)
(* flamelens, src/app.rs: the App object.                                  *)
(*                                                                         *)
(* Two parts of App are modelled, each with its own specification:         *)
(*                                                                         *)
(*  - the sample ingestion pipeline (App::with_pid's parser thread, the    *)
(*    single-slot mailbox next_flamegraph and App::tick), under Spec and   *)
(*    FairSpec;                                                            *)
(*  - the log buffer (push_log_message, the scroll operations, the log     *)
(*    search and match navigation), under SpecLog.                         *)
(*                                                                         *)
(* SpecSearch adds the flame search (set_manual_search_pattern) to the     *)
(* log search, for the handling of patterns that do not compile.           *)
(*                                                                         *)
(* An Option<T> of the source is a sequence of length at most one:         *)
(* <<>> is None and <<v>> is Some(v).                                      *)
(***************************************************************************)
EXTENDS Naturals, Integers, Sequences, FiniteSets, TLC

VARIABLES
    \* ---- ingestion pipeline -------------------------------------------
    sampler_state,    \* App.sampler_state: <<>> (static file) or <<status>>
    pyspy_data,       \* Arc<Mutex<Option<ProfilerOutput>>>: the raw-output slot
    next_flamegraph,  \* App.next_flamegraph: the tree mailbox
    flamegraph,       \* App.flamegraph_view.flamegraph: the displayed tree
    freeze,           \* App.flamegraph_view.state.freeze
    elapsed,          \* App.elapsed: the keys of the timing map
    mtx,              \* holder of each Mutex: "none", "bg" or "fg"
    bgpc,             \* position of the parser thread in its loop
    bg_output,        \* parser thread local `output`
    bg_flamegraph,    \* parser thread local `flamegraph` / `parsed`
    fgpc,             \* position of the foreground inside tick()
    parsed,           \* tick() local `parsed`
    snapshots,        \* number of raw snapshots the sampler has produced
    \* history of the pipeline (never read by the program)
    published,        \* ids of the trees stored into the mailbox, in order
    installed,        \* ids of the trees installed into the view, in order
    overwritten,      \* ids of trees replaced in the mailbox before a take
    replace_calls,    \* replace_flamegraph calls made by the current tick
    frozen_stores,    \* stores into the mailbox since freeze was last set
    \* ---- log buffer ---------------------------------------------------
    log_messages,
    log_scroll_offset,
    log_auto_scroll,
    log_search_pattern,
    log_search_text,
    log_max_capacity,
    log_current_match_line,
    log_visible_lines,
    transient_message,
    pushed,           \* every message ever pushed, in push order (history)
    \* ---- flame view ---------------------------------------------------
    search_pattern    \* App.flamegraph_view: the flame search pattern

pipe_vars == <<sampler_state, pyspy_data, next_flamegraph, flamegraph, freeze,
               elapsed, mtx, bgpc, bg_output, bg_flamegraph, fgpc, parsed,
               snapshots, published, installed, overwritten, replace_calls,
               frozen_stores>>

log_vars == <<log_messages, log_scroll_offset, log_auto_scroll,
              log_search_pattern, log_search_text, log_max_capacity,
              log_current_match_line, log_visible_lines, transient_message,
              pushed>>

view_vars == <<search_pattern>>

vars == <<pipe_vars, log_vars, view_vars>>

---------------------------------------------------------------------------
(* Bounds of the model *)

\* raw snapshots the sampling collaborator produces before it goes quiet
MaxSnap == 3

\* push_log_message calls in one run
MaxPush == 4

\* largest capacity handed to set_log_max_capacity
MaxCap == 3

\* largest line count handed to log_scroll_up / log_scroll_down
MaxScroll == 2

\* largest panel height the renderer stores into log_visible_lines
MaxVisible == 2

---------------------------------------------------------------------------
(* Program constants *)

\* log_max_capacity: 1000 in both constructors
InitLogMaxCapacity == 1000

\* log_visible_lines: 8 in both constructors
InitLogVisibleLines == 8

---------------------------------------------------------------------------
(* Helpers *)

Last(s) == s[Len(s)]

Range(s) == {s[i] : i \in 1..Len(s)}

Min(a, b) == IF a <= b THEN a ELSE b

\* usize::saturating_sub
SatSub(a, b) == IF a >= b THEN a - b ELSE 0

---------------------------------------------------------------------------
(* Frame trees.  A tree is identified by the raw snapshot it was parsed    *)
(* from; built is FALSE while FlameGraph::from_string is still working on  *)
(* it (nodes created, totals not yet aggregated).                          *)

\* FlameGraph::from_string("", true): the empty tree the view starts with
EmptyFlameGraph == [id |-> 0, built |-> TRUE]

\* the tree of snapshot `data` while from_string is constructing it
PartialFlameGraph(data) == [id |-> data, built |-> FALSE]

\* the value FlameGraph::from_string(data, true) returns
FromString(data) == [id |-> data, built |-> TRUE]

\* the two mutexes whose guards live across steps
FreeLocks == [raw |-> "none", next |-> "none"]

\* with_pid was used (a sampler exists): sampler_state is Some
LiveMode == sampler_state # <<>>

\* tick() panicked: the process is gone and no thread runs any more
Alive == fgpc # "panicked"


---------------------------------------------------------------------------
(* State after construction.                                               *)

\* with_flamegraph (sampler_state None, no thread) or with_pid (Some)
PipeInit ==
    /\ sampler_state \in {<<>>, <<"Running">>}
    /\ pyspy_data = <<>>
    /\ next_flamegraph = <<>>
    /\ flamegraph = EmptyFlameGraph
    /\ freeze = FALSE
    /\ elapsed = {}
    /\ mtx = FreeLocks
    /\ bgpc = "poll"
    /\ bg_output = <<>>
    /\ bg_flamegraph = <<>>
    /\ fgpc = "idle"
    /\ parsed = <<>>
    /\ snapshots = 0
    /\ published = <<>>
    /\ installed = <<>>
    /\ overwritten = {}
    /\ replace_calls = 0
    /\ frozen_stores = 0

---------------------------------------------------------------------------
(* The sampling collaborator (py_spy::record_samples): it stores raw       *)
(* snapshots into pyspy_data and reports its status.                       *)

SamplerOutput ==
    /\ Alive /\ LiveMode
    /\ sampler_state = <<"Running">>
    /\ snapshots < MaxSnap
    /\ mtx.raw = "none"
    /\ snapshots' = snapshots + 1
    /\ pyspy_data' = <<snapshots + 1>>
    /\ UNCHANGED <<log_vars, view_vars>>
    /\ UNCHANGED <<sampler_state, next_flamegraph, flamegraph, freeze, elapsed,
                   mtx, bgpc, bg_output, bg_flamegraph, fgpc, parsed,
                   published, installed, overwritten, replace_calls,
                   frozen_stores>>

SamplerError ==
    /\ Alive /\ LiveMode
    /\ sampler_state = <<"Running">>
    /\ sampler_state' = <<"Error">>
    /\ UNCHANGED <<log_vars, view_vars>>
    /\ UNCHANGED <<pyspy_data, next_flamegraph, flamegraph, freeze, elapsed,
                   mtx, bgpc, bg_output, bg_flamegraph, fgpc, parsed,
                   snapshots, published, installed, overwritten,
                   replace_calls, frozen_stores>>

---------------------------------------------------------------------------
(* The parser thread of with_pid: loop { if let Some(output) =             *)
(* pyspy_data.lock().unwrap().take() { parse; store } sleep }.             *)
(* The guard returned by pyspy_data.lock() is a temporary of the `if let`  *)
(* scrutinee: it is dropped at the end of the `if let`, after the body.    *)

\* `*next_flamegraph.lock().unwrap() = Some(parsed)`: the slot afterwards
PublishKeepOld(slot, tree) == IF slot = <<>> THEN <<tree>> ELSE slot

Publish(slot, tree) == <<tree>>

\* the mailbox guard is a temporary of the assignment statement: it is
\* dropped when the statement ends, the raw-output guard still held
ReleaseKeepNext(m) == m

ReleaseAfterStore(m) == [m EXCEPT !.next = "none"]

\* pyspy_data.lock().unwrap().take()
BgPoll ==
    /\ Alive /\ LiveMode
    /\ bgpc = "poll"
    /\ mtx.raw = "none"
    /\ IF pyspy_data # <<>>
       THEN /\ bg_output' = pyspy_data
            /\ pyspy_data' = <<>>
            /\ mtx' = [mtx EXCEPT !.raw = "bg"]
            /\ bgpc' = "parse"
       ELSE /\ bgpc' = "sleep"
            /\ UNCHANGED <<bg_output, pyspy_data, mtx>>
    /\ UNCHANGED <<log_vars, view_vars>>
    /\ UNCHANGED <<sampler_state, next_flamegraph, flamegraph, freeze, elapsed,
                   bg_flamegraph, fgpc, parsed, snapshots, published,
                   installed, overwritten, replace_calls, frozen_stores>>

\* FlameGraph::from_string(output.data, true) is entered
BgParseStart ==
    /\ Alive
    /\ bgpc = "parse"
    /\ bg_flamegraph' = <<PartialFlameGraph(bg_output[1])>>
    /\ bgpc' = "parsing"
    /\ UNCHANGED <<log_vars, view_vars>>
    /\ UNCHANGED <<sampler_state, pyspy_data, next_flamegraph, flamegraph,
                   freeze, elapsed, mtx, bg_output, fgpc, parsed, snapshots,
                   published, installed, overwritten, replace_calls,
                   frozen_stores>>

\* from_string returns; `parsed` is built around the finished tree
BgParseEnd ==
    /\ Alive
    /\ bgpc = "parsing"
    /\ bg_flamegraph' = <<FromString(bg_output[1])>>
    /\ bg_output' = <<>>
    /\ bgpc' = "lock_next"
    /\ UNCHANGED <<log_vars, view_vars>>
    /\ UNCHANGED <<sampler_state, pyspy_data, next_flamegraph, flamegraph,
                   freeze, elapsed, mtx, fgpc, parsed, snapshots, published,
                   installed, overwritten, replace_calls, frozen_stores>>

\* next_flamegraph.lock().unwrap(): blocks until the mailbox mutex is free
BgLockNext ==
    /\ Alive
    /\ bgpc = "lock_next"
    /\ mtx.next = "none"
    /\ mtx' = [mtx EXCEPT !.next = "bg"]
    /\ bgpc' = "store"
    /\ UNCHANGED <<log_vars, view_vars>>
    /\ UNCHANGED <<sampler_state, pyspy_data, next_flamegraph, flamegraph,
                   freeze, elapsed, bg_output, bg_flamegraph, fgpc, parsed,
                   snapshots, published, installed, overwritten,
                   replace_calls, frozen_stores>>

\* the store itself, then the mailbox guard is dropped
BgStore ==
    /\ Alive
    /\ bgpc = "store"
    /\ next_flamegraph' = Publish(next_flamegraph, bg_flamegraph[1])
    /\ bg_flamegraph' = <<>>
    /\ mtx' = ReleaseAfterStore(mtx)
    /\ bgpc' = "unlock"
    /\ published' = Append(published, bg_flamegraph[1].id)
    /\ overwritten' = overwritten \cup {t.id : t \in Range(next_flamegraph)}
    /\ frozen_stores' = IF freeze THEN frozen_stores + 1 ELSE frozen_stores
    /\ UNCHANGED <<log_vars, view_vars>>
    /\ UNCHANGED <<sampler_state, pyspy_data, flamegraph, freeze, elapsed,
                   bg_output, fgpc, parsed, snapshots, installed,
                   replace_calls>>

\* the end of the `if let`: `output` and the raw-output guard are dropped
BgUnlock ==
    /\ Alive
    /\ bgpc = "unlock"
    /\ mtx' = [mtx EXCEPT !.raw = "none"]
    /\ bgpc' = "sleep"
    /\ UNCHANGED <<log_vars, view_vars>>
    /\ UNCHANGED <<sampler_state, pyspy_data, next_flamegraph, flamegraph,
                   freeze, elapsed, bg_output, bg_flamegraph, fgpc, parsed,
                   snapshots, published, installed, overwritten,
                   replace_calls, frozen_stores>>

\* thread::sleep(250 ms)
BgSleep ==
    /\ Alive
    /\ bgpc = "sleep"
    /\ bgpc' = "poll"
    /\ UNCHANGED <<log_vars, view_vars>>
    /\ UNCHANGED <<sampler_state, pyspy_data, next_flamegraph, flamegraph,
                   freeze, elapsed, mtx, bg_output, bg_flamegraph, fgpc,
                   parsed, snapshots, published, installed, overwritten,
                   replace_calls, frozen_stores>>

---------------------------------------------------------------------------
(* The foreground: App::tick, and the freeze toggle of the view state.     *)
(* The guard returned by next_flamegraph.lock() in tick is a temporary of  *)
(* the `if let` scrutinee as well: it lives until the body has run.        *)

\* what Option::take leaves in the slot
TakeKeep(slot) == slot

TakeSlot(slot) == <<>>

\* FlameGraphView::replace_flamegraph: the tree displayed afterwards
ReplaceFlamegraph(old, new) == IF freeze THEN old ELSE new

\* `if let Some(SamplerStatus::Error(s)) = self.sampler_state.as_ref().map(..)`
SamplerFailedUnfrozen(s) == s # <<>> /\ s[1] = "Error" /\ ~freeze

SamplerFailed(s) == s # <<>> /\ s[1] = "Error"

\* tick() that does not look at the freeze flag
TickBeginIgnoreFreeze ==
    /\ fgpc = "idle"
    /\ replace_calls' = 0
    /\ fgpc' = "take"
    /\ UNCHANGED <<log_vars, view_vars>>
    /\ UNCHANGED <<sampler_state, pyspy_data, next_flamegraph, flamegraph,
                   freeze, elapsed, mtx, bgpc, bg_output, bg_flamegraph,
                   parsed, snapshots, published, installed, overwritten,
                   frozen_stores>>

\* tick() is entered and tests `!self.flamegraph_view.state.freeze`
TickBegin ==
    /\ fgpc = "idle"
    /\ replace_calls' = 0
    /\ fgpc' = IF freeze THEN "status" ELSE "take"
    /\ UNCHANGED <<log_vars, view_vars>>
    /\ UNCHANGED <<sampler_state, pyspy_data, next_flamegraph, flamegraph,
                   freeze, elapsed, mtx, bgpc, bg_output, bg_flamegraph,
                   parsed, snapshots, published, installed, overwritten,
                   frozen_stores>>

\* self.next_flamegraph.lock().unwrap().take()
TickTake ==
    /\ fgpc = "take"
    /\ mtx.next = "none"
    /\ IF next_flamegraph # <<>>
       THEN /\ parsed' = next_flamegraph
            /\ next_flamegraph' = TakeSlot(next_flamegraph)
            /\ mtx' = [mtx EXCEPT !.next = "fg"]
            /\ fgpc' = "replace"
       ELSE /\ fgpc' = "status"
            /\ UNCHANGED <<parsed, next_flamegraph, mtx>>
    /\ UNCHANGED <<log_vars, view_vars>>
    /\ UNCHANGED <<sampler_state, pyspy_data, flamegraph, freeze, elapsed,
                   bgpc, bg_output, bg_flamegraph, snapshots, published,
                   installed, overwritten, replace_calls, frozen_stores>>

\* a `while let` in place of the `if let`: the mailbox is drained
TickReplaceDrain ==
    /\ fgpc = "replace"
    /\ elapsed' = elapsed \cup {"flamegraph", "replacement"}
    /\ flamegraph' = parsed[1]
    /\ parsed' = <<>>
    /\ installed' = Append(installed, flamegraph'.id)
    /\ replace_calls' = replace_calls + 1
    /\ mtx' = [mtx EXCEPT !.next = "none"]
    /\ fgpc' = "take"
    /\ UNCHANGED <<log_vars, view_vars>>
    /\ UNCHANGED <<sampler_state, pyspy_data, next_flamegraph, freeze, bgpc,
                   bg_output, bg_flamegraph, snapshots, published,
                   overwritten, frozen_stores>>

\* the body of the `if let`: timings, replace_flamegraph, guard dropped
TickReplace ==
    /\ fgpc = "replace"
    /\ elapsed' = elapsed \cup {"flamegraph", "replacement"}
    /\ flamegraph' = ReplaceFlamegraph(flamegraph, parsed[1])
    /\ parsed' = <<>>
    /\ installed' = Append(installed, flamegraph'.id)
    /\ replace_calls' = replace_calls + 1
    /\ mtx' = [mtx EXCEPT !.next = "none"]
    /\ fgpc' = "status"
    /\ UNCHANGED <<log_vars, view_vars>>
    /\ UNCHANGED <<sampler_state, pyspy_data, next_flamegraph, freeze, bgpc,
                   bg_output, bg_flamegraph, snapshots, published,
                   overwritten, frozen_stores>>

\* the sampler status is read under its lock; Error panics
TickStatus ==
    /\ fgpc = "status"
    /\ fgpc' = IF SamplerFailed(sampler_state) THEN "panicked" ELSE "idle"
    /\ UNCHANGED <<log_vars, view_vars>>
    /\ UNCHANGED <<sampler_state, pyspy_data, next_flamegraph, flamegraph,
                   freeze, elapsed, mtx, bgpc, bg_output, bg_flamegraph,
                   parsed, snapshots, published, installed, overwritten,
                   replace_calls, frozen_stores>>

\* the operator freezes or unfreezes the view between two ticks
ToggleFreeze ==
    /\ fgpc = "idle"
    /\ freeze' = ~freeze
    /\ frozen_stores' = IF freeze THEN frozen_stores ELSE 0
    /\ UNCHANGED <<log_vars, view_vars>>
    /\ UNCHANGED <<sampler_state, pyspy_data, next_flamegraph, flamegraph,
                   elapsed, mtx, bgpc, bg_output, bg_flamegraph, fgpc, parsed,
                   snapshots, published, installed, overwritten,
                   replace_calls>>

\* add_elapsed(name, elapsed): the caller records one more timing
add_elapsed(name) ==
    /\ fgpc = "idle"
    /\ elapsed' = elapsed \cup {name}
    /\ UNCHANGED <<log_vars, view_vars>>
    /\ UNCHANGED <<sampler_state, pyspy_data, next_flamegraph, flamegraph,
                   freeze, mtx, bgpc, bg_output, bg_flamegraph, fgpc, parsed,
                   snapshots, published, installed, overwritten,
                   replace_calls, frozen_stores>>

\* the timings recorded from outside tick
ElapsedNames == {"render"}

AddElapsed == \E name \in ElapsedNames : add_elapsed(name)

Sampler == SamplerOutput \/ SamplerError

Background ==
    \/ BgPoll
    \/ BgParseStart
    \/ BgParseEnd
    \/ BgLockNext
    \/ BgStore
    \/ BgUnlock
    \/ BgSleep

Tick == TickBegin \/ TickTake \/ TickReplace \/ TickStatus

PipeNext == Sampler \/ Background \/ Tick \/ ToggleFreeze \/ AddElapsed

---------------------------------------------------------------------------
(* The log buffer.  A message is a sequence of characters; indices into    *)
(* log_messages are 0-based as in the source, so line i is                 *)
(* log_messages[i + 1].                                                    *)

Messages == {<<"x">>, <<"m">>}

Patterns == {<<"m">>, <<".">>, <<"(">>}

(* The regex crate, on the patterns written with the characters of        *)
(* PatternChars and the texts written with the characters of TextChars.    *)
(* Such a pattern is a sequence of atoms and of groups of atoms; an atom   *)
(* matches one character of the text or, for an assertion, a position.     *)

\* the letters of the patterns and texts, the one digit of the texts, the
\* white space of the texts and the punctuation of both
Letters ==
    {"x", "m", "d", "w", "s", "D", "W", "S", "n", "t", "r", "A", "z", "b", "B"}

DigitChars == {"2"}

SpaceChars == {"\n", "\t", "\r"}

Punctuation == {".", "(", ")", "[", "\\"}

PatternChars == Letters \cup Punctuation

TextChars == Letters \cup DigitChars \cup SpaceChars \cup Punctuation

\* \w: the letters, the digits (and the underscore)
WordChars == Letters \cup DigitChars

\* the letters of PatternChars that are hexadecimal digits (\xHH)
HexDigits == {"d", "b", "A", "D", "B"}

\* the atoms: one literal character, `.`, a class, a character no text has,
\* an assertion
Literal(c) == [kind |-> "literal", c |-> c]

AnyChar == [kind |-> "any", c |-> "."]

Class(c) == [kind |-> "class", c |-> c]

NoChar == [kind |-> "nochar", c |-> "x"]

Assertion(c) == [kind |-> "assertion", c |-> c]

\* the atom written as a backslash and the character c, if there is one:
\* \. \( \) \[ \\ are literals, \n \t \r the control characters, \d \w \s
\* \D \W \S classes, \A \z \b \B assertions; \m is no escape and \x is
\* treated apart
EscapeAtom(c) ==
    IF c \in Punctuation THEN <<Literal(c)>>
    ELSE IF c = "n" THEN <<Literal("\n")>>
    ELSE IF c = "t" THEN <<Literal("\t")>>
    ELSE IF c = "r" THEN <<Literal("\r")>>
    ELSE IF c \in {"d", "w", "s", "D", "W", "S"} THEN <<Class(c)>>
    ELSE IF c \in {"A", "z", "b", "B"} THEN <<Assertion(c)>>
    ELSE <<>>

\* the parser of Regex::new from position i, inside `depth` open groups:
\* the atoms of the pattern in order, or a failure on a group that is not
\* closed, a `)` that closes nothing, a `[` (no class is ever closed), a
\* backslash at the end or before a character that makes no escape, a \x
\* without two hexadecimal digits.  \xHH with digits of HexDigits is a
\* character above U+00A0, which no text over TextChars contains.
RECURSIVE ParsePattern(_, _, _, _)
ParsePattern(pattern, i, depth, atoms) ==
    IF i > Len(pattern) THEN [ok |-> depth = 0, atoms |-> atoms]
    ELSE LET c == pattern[i]
         IN IF c = "\\"
            THEN IF i = Len(pattern) THEN [ok |-> FALSE, atoms |-> atoms]
                 ELSE IF pattern[i + 1] = "x"
                 THEN IF /\ i + 3 <= Len(pattern)
                         /\ pattern[i + 2] \in HexDigits
                         /\ pattern[i + 3] \in HexDigits
                      THEN ParsePattern(pattern, i + 4, depth,
                                        Append(atoms, NoChar))
                      ELSE [ok |-> FALSE, atoms |-> atoms]
                 ELSE IF EscapeAtom(pattern[i + 1]) # <<>>
                 THEN ParsePattern(pattern, i + 2, depth,
                                   atoms \o EscapeAtom(pattern[i + 1]))
                 ELSE [ok |-> FALSE, atoms |-> atoms]
            ELSE IF c = "("
            THEN ParsePattern(pattern, i + 1, depth + 1, atoms)
            ELSE IF c = ")"
            THEN IF depth = 0 THEN [ok |-> FALSE, atoms |-> atoms]
                 ELSE ParsePattern(pattern, i + 1, depth - 1, atoms)
            ELSE IF c = "["
            THEN [ok |-> FALSE, atoms |-> atoms]
            ELSE IF c = "."
            THEN ParsePattern(pattern, i + 1, depth, Append(atoms, AnyChar))
            ELSE ParsePattern(pattern, i + 1, depth,
                              Append(atoms, Literal(c)))

\* regex::Regex::new(pattern).is_ok()
RegexCompiles(pattern) == ParsePattern(pattern, 1, 0, <<>>).ok

\* one atom that takes a character, against the character ch of the text
AtomMatches(atom, ch) ==
    IF atom.kind = "literal" THEN ch = atom.c
    ELSE IF atom.kind = "any" THEN ch # "\n"
    ELSE IF atom.kind = "class"
    THEN IF atom.c = "d" THEN ch \in DigitChars
         ELSE IF atom.c = "D" THEN ch \notin DigitChars
         ELSE IF atom.c = "w" THEN ch \in WordChars
         ELSE IF atom.c = "W" THEN ch \notin WordChars
         ELSE IF atom.c = "s" THEN ch \in SpaceChars
         ELSE ch \notin SpaceChars
    ELSE FALSE

\* the character before position pos of the text is a word character
WordBefore(text, pos) == pos > 1 /\ text[pos - 1] \in WordChars

\* the character at position pos of the text is a word character
WordAt(text, pos) == pos <= Len(text) /\ text[pos] \in WordChars

\* an assertion at position pos (the place before text[pos]): \A at the
\* start of the text, \z at its end, \b between a word character and
\* none, \B elsewhere
AssertionHolds(atom, text, pos) ==
    IF atom.c = "A" THEN pos = 1
    ELSE IF atom.c = "z" THEN pos = Len(text) + 1
    ELSE IF atom.c = "b" THEN WordBefore(text, pos) # WordAt(text, pos)
    ELSE WordBefore(text, pos) = WordAt(text, pos)

\* the atoms from the k-th on match the text from position pos on
RECURSIVE MatchFrom(_, _, _, _)
MatchFrom(atoms, k, text, pos) ==
    IF k > Len(atoms) THEN TRUE
    ELSE IF atoms[k].kind = "assertion"
    THEN /\ AssertionHolds(atoms[k], text, pos)
         /\ MatchFrom(atoms, k + 1, text, pos)
    ELSE /\ pos <= Len(text)
         /\ AtomMatches(atoms[k], text[pos])
         /\ MatchFrom(atoms, k + 1, text, pos + 1)

\* Regex::is_match of the compiled pattern: its atoms match somewhere in
\* the text
IsMatch(re, text) ==
    LET atoms == ParsePattern(re, 1, 0, <<>>).atoms
    IN \E pos \in 1..(Len(text) + 1) : MatchFrom(atoms, 1, text, pos)

\* self.log_messages[i]
LineAt(msgs, i) == msgs[i + 1]

LogInit ==
    /\ log_messages = <<>>
    /\ log_scroll_offset = 0
    /\ log_auto_scroll = TRUE
    /\ log_search_pattern = <<>>
    /\ log_search_text = <<>>
    /\ log_max_capacity = InitLogMaxCapacity
    /\ log_current_match_line = <<>>
    /\ log_visible_lines = InitLogVisibleLines
    /\ transient_message = <<>>
    /\ pushed = <<>>

\* the lines the log panel shows: indices [start, end) with
\* end = len - offset and start = end - visible, both saturating
ViewEnd(msgs, off) == SatSub(Len(msgs), off)

ViewStart(msgs, off, vis) == SatSub(ViewEnd(msgs, off), vis)

Viewport(msgs, off, vis) ==
    SubSeq(msgs, ViewStart(msgs, off, vis) + 1, ViewEnd(msgs, off))

\* push_log_message: the offset after `if !self.log_auto_scroll { += 1 }`
PushOffsetNoPin(off, auto) == off

PushOffset(off, auto) == IF ~auto THEN off + 1 ELSE off

\* push_log_message: the buffer after `if len > capacity { pop_front() }`
Evict(msgs, cap) == IF Len(msgs) > cap THEN Tail(msgs) ELSE msgs

\* push_log_message: the offset after the eviction branch
EvictOffset(msgs, cap, off) ==
    IF Len(msgs) > cap /\ off > 0 THEN off - 1 ELSE off

push_log_message(msg) ==
    /\ Len(pushed) < MaxPush
    /\ LET appended == Append(log_messages, msg)
           off1 == PushOffset(log_scroll_offset, log_auto_scroll)
       IN /\ log_messages' = Evict(appended, log_max_capacity)
          /\ log_scroll_offset' = EvictOffset(appended, log_max_capacity, off1)
    /\ pushed' = Append(pushed, msg)
    /\ UNCHANGED <<pipe_vars, view_vars>>
    /\ UNCHANGED <<log_auto_scroll, log_search_pattern, log_search_text,
                   log_max_capacity, log_current_match_line,
                   log_visible_lines, transient_message>>

log_scroll_up(lines) ==
    /\ log_scroll_offset' =
           Min(log_scroll_offset + lines,
               SatSub(Len(log_messages), log_visible_lines))
    /\ log_auto_scroll' = FALSE
    /\ UNCHANGED <<pipe_vars, view_vars>>
    /\ UNCHANGED <<log_messages, log_search_pattern, log_search_text,
                   log_max_capacity, log_current_match_line,
                   log_visible_lines, transient_message, pushed>>

log_scroll_down(lines) ==
    /\ log_scroll_offset' = SatSub(log_scroll_offset, lines)
    /\ log_auto_scroll' =
           IF log_scroll_offset' = 0 THEN TRUE ELSE log_auto_scroll
    /\ UNCHANGED <<pipe_vars, view_vars>>
    /\ UNCHANGED <<log_messages, log_search_pattern, log_search_text,
                   log_max_capacity, log_current_match_line,
                   log_visible_lines, transient_message, pushed>>

log_scroll_to_bottom ==
    /\ log_scroll_offset' = 0
    /\ log_auto_scroll' = TRUE
    /\ UNCHANGED <<pipe_vars, view_vars>>
    /\ UNCHANGED <<log_messages, log_search_pattern, log_search_text,
                   log_max_capacity, log_current_match_line,
                   log_visible_lines, transient_message, pushed>>

\* a recentring that moves the viewport and leaves the auto-scroll flag
scroll_to_log_line_keep_flag(line) ==
    LET len == Len(log_messages)
        end == SatSub(len, log_scroll_offset)
        start == SatSub(end, log_visible_lines)
        half == log_visible_lines \div 2
        off == Min(SatSub(len, line + half + 1),
                   SatSub(len, log_visible_lines))
    IN IF line >= start /\ line < end
       THEN [offset |-> log_scroll_offset, auto |-> log_auto_scroll]
       ELSE [offset |-> off, auto |-> log_auto_scroll]

\* scroll_to_log_line: the offset and auto-scroll flag it leaves
scroll_to_log_line(line) ==
    LET len == Len(log_messages)
        end == SatSub(len, log_scroll_offset)
        start == SatSub(end, log_visible_lines)
        half == log_visible_lines \div 2
        off == Min(SatSub(len, line + half + 1),
                   SatSub(len, log_visible_lines))
    IN IF line >= start /\ line < end
       THEN [offset |-> log_scroll_offset, auto |-> log_auto_scroll]
       ELSE [offset |-> off, auto |-> (off = 0)]

\* the lines of the buffer the pattern matches (0-based indices)
MatchingLines(re) ==
    {i \in 0..(Len(log_messages) - 1) : IsMatch(re, LineAt(log_messages, i))}

SetMax(S) == CHOOSE m \in S : \A k \in S : k <= m

SetMin(S) == CHOOSE m \in S : \A k \in S : m <= k

\* a forward scan in place of the backward one: the first matching line
InitialMatchFirst(re) ==
    IF MatchingLines(re) = {} THEN <<>> ELSE <<SetMin(MatchingLines(re))>>

\* (0..len).rev().find(|&i| re.is_match(&self.log_messages[i]))
InitialMatch(re) ==
    IF MatchingLines(re) = {} THEN <<>> ELSE <<SetMax(MatchingLines(re))>>

set_transient_message(message) ==
    /\ transient_message' = <<message>>

set_log_search_pattern(pattern) ==
    /\ UNCHANGED <<pipe_vars, view_vars>>
    /\ IF RegexCompiles(pattern)
       THEN LET initial_match == InitialMatch(pattern)
                to == IF initial_match # <<>>
                      THEN scroll_to_log_line(initial_match[1])
                      ELSE [offset |-> log_scroll_offset, auto |-> log_auto_scroll]
            IN /\ log_search_pattern' = <<pattern>>
               /\ log_search_text' = <<pattern>>
               /\ log_current_match_line' = initial_match
               /\ log_scroll_offset' = to.offset
               /\ log_auto_scroll' = to.auto
               /\ UNCHANGED <<log_messages, log_max_capacity, log_visible_lines,
                              transient_message, pushed>>
       ELSE /\ set_transient_message(<<"Invalid regex: ", pattern>>)
            /\ UNCHANGED <<log_messages, log_scroll_offset, log_auto_scroll,
                           log_search_pattern, log_search_text, log_max_capacity,
                           log_current_match_line, log_visible_lines, pushed>>

\* SearchPattern::new(pattern, is_regex, is_manual): a regex pattern that
\* does not compile is an error, a literal pattern never is
SearchPatternNew(pattern, is_regex, is_manual) ==
    IF is_regex /\ ~RegexCompiles(pattern)
    THEN [ok |-> FALSE]
    ELSE [ok |-> TRUE,
          p |-> [pattern |-> pattern, is_regex |-> is_regex,
                 is_manual |-> is_manual]]

\* FlameGraphView::set_search_pattern: the view owns the new pattern
set_search_pattern(p) ==
    /\ search_pattern' = <<p>>

\* an error branch that also drops the pattern the view had
set_manual_search_pattern_drop(pattern, is_regex) ==
    /\ LET new == SearchPatternNew(pattern, is_regex, TRUE)
       IN IF new.ok
          THEN /\ set_search_pattern(new.p)
               /\ UNCHANGED transient_message
          ELSE /\ set_transient_message(<<"Invalid regex: ", pattern>>)
               /\ search_pattern' = <<>>
    /\ UNCHANGED pipe_vars
    /\ UNCHANGED <<log_messages, log_scroll_offset, log_auto_scroll,
                   log_search_pattern, log_search_text, log_max_capacity,
                   log_current_match_line, log_visible_lines, pushed>>

set_manual_search_pattern(pattern, is_regex) ==
    /\ LET new == SearchPatternNew(pattern, is_regex, TRUE)
       IN IF new.ok
          THEN /\ set_search_pattern(new.p)
               /\ UNCHANGED transient_message
          ELSE /\ set_transient_message(<<"Invalid regex: ", pattern>>)
               /\ UNCHANGED search_pattern
    /\ UNCHANGED pipe_vars
    /\ UNCHANGED <<log_messages, log_scroll_offset, log_auto_scroll,
                   log_search_pattern, log_search_text, log_max_capacity,
                   log_current_match_line, log_visible_lines, pushed>>

clear_log_search ==
    /\ log_search_pattern' = <<>>
    /\ log_search_text' = <<>>
    /\ log_current_match_line' = <<>>
    /\ UNCHANGED <<pipe_vars, view_vars>>
    /\ UNCHANGED <<log_messages, log_scroll_offset, log_auto_scroll,
                   log_max_capacity, log_visible_lines, transient_message,
                   pushed>>

\* a scan that wraps around to the top of the buffer when it finds nothing
NextMatchWrap ==
    IF log_search_pattern = <<>> \/ Len(log_messages) = 0 THEN <<>>
    ELSE LET start == IF log_current_match_line = <<>> THEN 0
                      ELSE log_current_match_line[1] + 1
             all == MatchingLines(log_search_pattern[1])
             found == {i \in all : i >= start}
         IN IF found # {} THEN <<SetMin(found)>>
            ELSE IF all # {} THEN <<SetMin(all)>> ELSE <<>>

\* log_next_match: the first matching index in start..len, if any
NextMatch ==
    IF log_search_pattern = <<>> \/ Len(log_messages) = 0 THEN <<>>
    ELSE LET start == IF log_current_match_line = <<>> THEN 0
                      ELSE log_current_match_line[1] + 1
             found == {i \in MatchingLines(log_search_pattern[1]) : i >= start}
         IN IF found = {} THEN <<>> ELSE <<SetMin(found)>>

\* log_prev_match: the last matching index in 0..=start, if any
PrevMatch ==
    IF log_search_pattern = <<>> \/ Len(log_messages) = 0 THEN <<>>
    ELSE LET start == SatSub(IF log_current_match_line = <<>>
                             THEN Len(log_messages)
                             ELSE log_current_match_line[1], 1)
             found == {i \in MatchingLines(log_search_pattern[1]) : i <= start}
         IN IF found = {} THEN <<>> ELSE <<SetMax(found)>>

\* the common tail of log_next_match and log_prev_match
GoToMatch(found) ==
    IF found = <<>>
    THEN UNCHANGED <<log_current_match_line, log_scroll_offset,
                     log_auto_scroll>>
    ELSE /\ log_current_match_line' = found
         /\ log_scroll_offset' = scroll_to_log_line(found[1]).offset
         /\ log_auto_scroll' = scroll_to_log_line(found[1]).auto

log_next_match ==
    /\ GoToMatch(NextMatch)
    /\ UNCHANGED <<pipe_vars, view_vars>>
    /\ UNCHANGED <<log_messages, log_search_pattern, log_search_text,
                   log_max_capacity, log_visible_lines, transient_message,
                   pushed>>

log_prev_match ==
    /\ GoToMatch(PrevMatch)
    /\ UNCHANGED <<pipe_vars, view_vars>>
    /\ UNCHANGED <<log_messages, log_search_pattern, log_search_text,
                   log_max_capacity, log_visible_lines, transient_message,
                   pushed>>

set_log_max_capacity(capacity) ==
    /\ log_max_capacity' = capacity
    /\ UNCHANGED <<pipe_vars, view_vars>>
    /\ UNCHANGED <<log_messages, log_scroll_offset, log_auto_scroll,
                   log_search_pattern, log_search_text,
                   log_current_match_line, log_visible_lines,
                   transient_message, pushed>>

clear_transient_message ==
    /\ transient_message' = <<>>
    /\ UNCHANGED <<pipe_vars, view_vars>>
    /\ UNCHANGED <<log_messages, log_scroll_offset, log_auto_scroll,
                   log_search_pattern, log_search_text, log_max_capacity,
                   log_current_match_line, log_visible_lines, pushed>>

\* the renderer stores the height of the log panel into log_visible_lines
SetLogVisibleLines(height) ==
    /\ log_visible_lines' = height
    /\ UNCHANGED <<pipe_vars, view_vars>>
    /\ UNCHANGED <<log_messages, log_scroll_offset, log_auto_scroll,
                   log_search_pattern, log_search_text, log_max_capacity,
                   log_current_match_line, transient_message, pushed>>

Push == \E msg \in Messages : push_log_message(msg)

ScrollUp == \E lines \in 1..MaxScroll : log_scroll_up(lines)

ScrollDown == \E lines \in 1..MaxScroll : log_scroll_down(lines)

Search == \E pattern \in Patterns : set_log_search_pattern(pattern)

SetCapacity == \E capacity \in 0..MaxCap : set_log_max_capacity(capacity)

Resize == \E height \in 0..MaxVisible : SetLogVisibleLines(height)

ManualSearch ==
    \E pattern \in Patterns, is_regex \in BOOLEAN :
        set_manual_search_pattern(pattern, is_regex)

\* the two searches, on a buffer that grows and is scrolled
SearchNext ==
    \/ Push
    \/ ScrollUp
    \/ Search
    \/ log_prev_match
    \/ ManualSearch
    \/ clear_transient_message

LogNext ==
    \/ Push
    \/ ScrollUp
    \/ ScrollDown
    \/ log_scroll_to_bottom
    \/ Search
    \/ clear_log_search
    \/ log_next_match
    \/ log_prev_match
    \/ SetCapacity
    \/ clear_transient_message
    \/ Resize

---------------------------------------------------------------------------
(* Specifications *)

\* no flame search pattern before the first search
ViewInit == search_pattern = <<>>

Init == PipeInit /\ LogInit /\ ViewInit

Next == PipeNext

\* the ingestion pipeline
Spec == Init /\ [][Next]_vars

\* the ingestion pipeline with its scheduling: every thread that can take
\* a step eventually does, and a tick waiting for the mailbox mutex gets
\* it once the parser thread, which sleeps between two stores, lets go
Fairness ==
    /\ WF_vars(Background)
    /\ WF_vars(TickReplace \/ TickStatus)
    /\ SF_vars(TickTake)

FairSpec == Spec /\ Fairness

\* the log buffer, of an App built by with_flamegraph
InitLog == PipeInit /\ LogInit /\ ViewInit /\ sampler_state = <<>>

SpecLog == InitLog /\ [][LogNext]_vars

\* the flame search and the log search, of an App built by with_flamegraph
SpecSearch == InitLog /\ [][SearchNext]_vars

---------------------------------------------------------------------------
(* Properties of the ingestion pipeline *)

\* the ids of the trees held in an Option
Ids(slot) == {t.id : t \in Range(slot)}

\* a step of the foreground that leaves position `pc` of tick()
TickLeaves(pc) == fgpc = pc /\ fgpc' # pc

\* C1. Mailbox freshness: a tree that was overwritten in the mailbox before
\* any tick took it is never installed, taken or displayed; the mailbox,
\* when it is not empty, holds the tree published last; and the tree a
\* tick installs is the one published last.
MailboxFreshness ==
    /\ [](/\ \A i \in 1..Len(installed) : installed[i] \notin overwritten
          /\ flamegraph.id \notin overwritten
          /\ Ids(parsed) \cap overwritten = {}
          /\ \A t \in Range(next_flamegraph) : t.id = Last(published)
          /\ \A t \in Range(parsed) : t.id = Last(published))
    /\ [][TickLeaves("replace") =>
              /\ flamegraph'.id = Last(published)
              /\ installed' = Append(installed, Last(published))]_vars

\* C1 witness: tree 1 was overwritten by tree 2 before any tick took it,
\* and a tick then installed tree 2 and nothing else
MailboxFreshnessWitness ==
    /\ 1 \in overwritten
    /\ installed = <<2>>
    /\ flamegraph.id = 2

\* C2. A tick replaces the tree at most once: a tick that finds the mailbox
\* pending takes the tree, leaves the mailbox empty and installs exactly that
\* tree with one call of replace_flamegraph; a tick that finds it empty calls
\* nothing; and the displayed tree changes in no other step.
TickReplacesAtMostOnce ==
    /\ [](replace_calls <= 1)
    /\ [](fgpc = "replace" => next_flamegraph = <<>> /\ replace_calls = 0)
    /\ [][/\ (TickLeaves("take") /\ next_flamegraph # <<>>) =>
                 /\ fgpc' = "replace"
                 /\ parsed' = next_flamegraph
                 /\ next_flamegraph' = <<>>
                 /\ flamegraph' = flamegraph
          /\ (TickLeaves("take") /\ next_flamegraph = <<>>) =>
                 /\ fgpc' = "status"
                 /\ replace_calls' = 0
                 /\ next_flamegraph' = <<>>
                 /\ flamegraph' = flamegraph
          /\ TickLeaves("replace") =>
                 /\ fgpc' = "status"
                 /\ flamegraph' = parsed[1]
                 /\ replace_calls' = 1
                 /\ next_flamegraph' = <<>>
          /\ (flamegraph' # flamegraph) => TickLeaves("replace")]_vars

\* C2 witness: three trees were published before the first tick that took
\* one; that tick has made its single call and installed the third
TickReplacesAtMostOnceWitness ==
    /\ fgpc = "status"
    /\ replace_calls = 1
    /\ published = <<1, 2, 3>>
    /\ installed = <<3>>

\* C3. While the view is frozen no step changes the displayed tree, takes a
\* tree out of the mailbox or installs one, and the mailbox changes only by
\* the parser thread storing its newest tree; a frozen tick is never at the
\* take or replace position; and the tree published last is always in the
\* mailbox, in the hands of the running tick, or displayed, so the first
\* tick after unfreezing picks up that tree and no older one.
FrozenViewKeepsTree ==
    /\ [][freeze =>
              /\ flamegraph' = flamegraph
              /\ installed' = installed
              /\ parsed' = parsed
              /\ (next_flamegraph' # next_flamegraph =>
                      /\ bgpc = "store"
                      /\ next_flamegraph' = bg_flamegraph
                      /\ Ids(next_flamegraph') = {Last(published')})]_vars
    /\ [](freeze => fgpc \in {"idle", "status", "panicked"} /\ parsed = <<>>)
    /\ [](published # <<>> =>
              \/ Ids(next_flamegraph) = {Last(published)}
              \/ (Ids(parsed) = {Last(published)} /\ next_flamegraph = <<>>)
              \/ (flamegraph.id = Last(published) /\ next_flamegraph = <<>>))
    /\ [][(TickLeaves("take") /\ next_flamegraph # <<>>) =>
              Ids(parsed') = {Last(published)}]_vars

\* C3 witness: two trees were stored while the view was frozen, the view
\* was unfrozen, and the tick after that installed the second one only
FrozenViewKeepsTreeWitness ==
    /\ ~freeze
    /\ frozen_stores = 2
    /\ published = <<1, 2>>
    /\ installed = <<2>>
    /\ fgpc = "status"

\* C4. A tick that reads the status Error panics, and only such a tick:
\* the step that leaves the status position ends in "panicked" exactly when
\* the sampler state holds Error, frozen or not, tree pending or not; no
\* tick returns while the status is Error; without a sampler state (static
\* file) tick never panics.
SamplerErrorIsFatal ==
    /\ [][TickLeaves("status") =>
              /\ (sampler_state = <<"Error">> => fgpc' = "panicked")
              /\ (sampler_state # <<"Error">> => fgpc' = "idle")]_vars
    /\ [][(fgpc # "idle" /\ fgpc' = "idle") => sampler_state # <<"Error">>]_vars
    /\ [](sampler_state = <<>> => fgpc # "panicked")

\* C4 witness: a tick of a frozen view with a tree pending has panicked
SamplerErrorIsFatalWitness ==
    /\ fgpc = "panicked"
    /\ freeze
    /\ next_flamegraph # <<>>

\* C5. The mailbox holds nothing or one tree whose parsing has completed;
\* the tree a tick holds and the displayed tree are complete; and a tree is
\* in one place only: the parser thread's hands, the mailbox, the tick's
\* hands or the view.
MailboxHoldsOneBuiltTree ==
    /\ Len(next_flamegraph) <= 1
    /\ \A t \in Range(next_flamegraph) : t.built
    /\ \A t \in Range(parsed) : t.built
    /\ flamegraph.built
    /\ Ids(next_flamegraph) \cap Ids(parsed) = {}
    /\ Ids(next_flamegraph) \cap Ids(bg_flamegraph) = {}
    /\ Ids(parsed) \cap Ids(bg_flamegraph) = {}
    /\ flamegraph.id \notin
           (Ids(next_flamegraph) \cup Ids(parsed) \cup Ids(bg_flamegraph))

\* C5 witness: a parsed tree is displayed, a newer one waits in the mailbox
\* and the parser thread is building a third
MailboxHoldsOneBuiltTreeWitness ==
    /\ flamegraph.id = 1
    /\ Ids(next_flamegraph) = {2}
    /\ bg_flamegraph = <<PartialFlameGraph(3)>>

\* C6 (as claimed). Locks are held only for the instant of the take, store
\* or read: the parser thread holds none while it parses and the tick holds
\* none while it installs the tree.
LocksHeldOnlyForAnInstant ==
    /\ (bgpc \in {"parse", "parsing"} => mtx.raw # "bg" /\ mtx.next # "bg")
    /\ (fgpc = "replace" => mtx.next # "fg")

\* the tick waits for a mutex only while its holder is about to release it
NoDeadlock ==
    (fgpc = "take" /\ mtx.next # "none") =>
        /\ mtx.next = "bg"
        /\ bgpc = "store"
        /\ ENABLED BgStore

\* C7. The tick never stalls: no reachable state has the tick waiting for
\* a mutex whose holder cannot go on, and every started tick ends (returns
\* or panics).
TickNeverStalls ==
    /\ []NoDeadlock
    /\ (fgpc \notin {"idle", "panicked"}) ~> (fgpc \in {"idle", "panicked"})

\* C7 witness: the tick waits for the mailbox mutex while the parser thread
\* holds it nested inside the raw-output mutex
TickNeverStallsWitness ==
    /\ fgpc = "take"
    /\ mtx.next = "bg"
    /\ mtx.raw = "bg"

---------------------------------------------------------------------------
(* Properties of the log buffer *)

\* a step is a call of push_log_message
IsPush == pushed' # pushed

\* the lines shown in the log panel, now and after the step
Shown == Viewport(log_messages, log_scroll_offset, log_visible_lines)

ShownNext == Viewport(log_messages', log_scroll_offset', log_visible_lines')

\* the last n elements of s (all of s when it is shorter)
Suffix(s, n) == SubSeq(s, SatSub(Len(s), n) + 1, Len(s))

\* C8 (as claimed). A push on a full buffer with auto-scroll off drops the
\* oldest line, and the lines shown are the same after the push as before
\* it unless the evicted line (index 0) was one of them.
PushAtCapacityKeepsViewport ==
    [][(/\ IsPush
        /\ ~log_auto_scroll
        /\ Len(log_messages) >= 1
        /\ Len(log_messages) = log_max_capacity) =>
           /\ log_messages' = Append(Tail(log_messages), Last(pushed'))
           /\ (ViewStart(log_messages, log_scroll_offset, log_visible_lines) > 0
                  => ShownNext = Shown)]_vars

\* C9. A push below capacity with auto-scroll off appends the line, raises
\* the offset by exactly one and leaves the lines shown as they were; a push
\* with auto-scroll on finds and leaves the offset at 0, so the lines shown
\* afterwards are the tail of the buffer.
PushBelowCapacityPinsViewport ==
    [][IsPush =>
           /\ (~log_auto_scroll /\ Len(log_messages) < log_max_capacity) =>
                  /\ log_messages' = Append(log_messages, Last(pushed'))
                  /\ log_scroll_offset' = log_scroll_offset + 1
                  /\ ~log_auto_scroll'
                  /\ ShownNext = Shown
           /\ log_auto_scroll =>
                  /\ log_scroll_offset = 0
                  /\ log_scroll_offset' = 0
                  /\ log_auto_scroll'
                  /\ ShownNext = Suffix(log_messages', log_visible_lines)]_vars

\* C9 witness: capacity and panel height are still those of the constructor,
\* so no line was evicted and scrolling up could not raise the offset above
\* 0: one line was shown when auto-scroll went off, two pushes followed, and
\* the offset 2 keeps that line in the panel
PushBelowCapacityPinsViewportWitness ==
    /\ log_max_capacity = InitLogMaxCapacity
    /\ log_visible_lines = InitLogVisibleLines
    /\ ~log_auto_scroll
    /\ Len(log_messages) = 3
    /\ log_scroll_offset = 2
    /\ Shown = <<log_messages[1]>>

\* C10 (as claimed). The buffer never holds more than log_max_capacity
\* lines, and it holds exactly the lines pushed last, in push order.
LogBufferIsBoundedFifo ==
    /\ Len(log_messages) <= log_max_capacity
    /\ log_messages = Suffix(pushed, Len(log_messages))

\* max(0, total_lines - visible_lines), the largest offset scrolling allows
OffsetBound ==
    IF Len(log_messages) > log_visible_lines
    THEN Len(log_messages) - log_visible_lines ELSE 0

OffsetBoundNext ==
    IF Len(log_messages') > log_visible_lines'
    THEN Len(log_messages') - log_visible_lines' ELSE 0

\* C11 (as claimed). After log_scroll_up(n) and after log_scroll_down(n)
\* the offset lies in [0, max(0, total - visible)]; scroll_up raises it by
\* n capped at that bound and scroll_down lowers it by n floored at 0.
ScrollKeepsOffsetInRange ==
    [][\A n \in 1..MaxScroll :
           /\ log_scroll_up(n) =>
                  /\ log_scroll_offset' =
                         Min(log_scroll_offset + n, OffsetBound)
                  /\ log_scroll_offset' <= OffsetBoundNext
           /\ log_scroll_down(n) =>
                  /\ log_scroll_offset' =
                         (IF log_scroll_offset > n
                          THEN log_scroll_offset - n ELSE 0)
                  /\ log_scroll_offset' <= OffsetBoundNext]_vars

\* the line at 0-based index i is matched by the pattern re
Matches(re, i) ==
    /\ i \in 0..(Len(log_messages) - 1)
    /\ IsMatch(re, log_messages[i + 1])

\* C12. set_log_search_pattern with a pattern that compiles installs the
\* pattern and its text and leaves the buffer alone; the current match
\* becomes the greatest index whose line matches, or none when no line
\* matches, and then the offset and the auto-scroll flag stay as they were.
SearchSelectsLatestMatch ==
    [][\A p \in Patterns :
           (set_log_search_pattern(p) /\ RegexCompiles(p)) =>
               /\ log_search_pattern' = <<p>>
               /\ log_search_text' = <<p>>
               /\ log_messages' = log_messages
               /\ IF \E i \in 0..(Len(log_messages) - 1) : Matches(p, i)
                  THEN /\ Len(log_current_match_line') = 1
                       /\ Matches(p, log_current_match_line'[1])
                       /\ \A j \in 0..(Len(log_messages) - 1) :
                              Matches(p, j) => j <= log_current_match_line'[1]
                  ELSE /\ log_current_match_line' = <<>>
                       /\ log_scroll_offset' = log_scroll_offset
                       /\ log_auto_scroll' = log_auto_scroll]_vars

\* C12 witness: the pattern m is installed on [m, m, x, x]; line 1 is the
\* latest match, lines 2 and 3 do not match and line 0 is an older match
SearchSelectsLatestMatchWitness ==
    /\ log_messages = << <<"m">>, <<"m">>, <<"x">>, <<"x">> >>
    /\ log_search_pattern = << <<"m">> >>
    /\ log_current_match_line = <<1>>

\* the indices the installed pattern matches (none without a pattern)
Matching ==
    IF log_search_pattern = <<>> THEN {}
    ELSE {i \in 0..(Len(log_messages) - 1) : Matches(log_search_pattern[1], i)}

\* the matches after / before the current match (all of them without one)
MatchesAfter ==
    {i \in Matching :
         log_current_match_line = <<>> \/ i > log_current_match_line[1]}

MatchesBefore ==
    {i \in Matching :
         log_current_match_line = <<>> \/ i < log_current_match_line[1]}

\* C13. Match navigation does not wrap: log_next_match moves the current
\* match to the least matching index after it (the least of all without a
\* current match), log_prev_match to the greatest matching index before it
\* (the greatest of all without one); with no such index the current match
\* stays what it was.
MatchNavigationDoesNotWrap ==
    [][/\ log_next_match =>
              IF MatchesAfter = {}
              THEN log_current_match_line' = log_current_match_line
              ELSE /\ Len(log_current_match_line') = 1
                   /\ log_current_match_line'[1] \in MatchesAfter
                   /\ \A k \in MatchesAfter : log_current_match_line'[1] <= k
       /\ log_prev_match =>
              IF MatchesBefore = {}
              THEN log_current_match_line' = log_current_match_line
              ELSE /\ Len(log_current_match_line') = 1
                   /\ log_current_match_line'[1] \in MatchesBefore
                   /\ \A k \in MatchesBefore : log_current_match_line'[1] >= k
      ]_vars

\* C13 witness: on [x, m, x, m] with the pattern m the current match is
\* line 1, where log_prev_match goes from line 3
MatchNavigationDoesNotWrapWitness ==
    /\ log_messages = << <<"x">>, <<"m">>, <<"x">>, <<"m">> >>
    /\ log_search_pattern = << <<"m">> >>
    /\ log_current_match_line = <<1>>
    /\ log_max_capacity = InitLogMaxCapacity

\* a step of the search or of the match navigation that selects a line
SelectsLine ==
    /\ \/ \E p \in Patterns : set_log_search_pattern(p) /\ RegexCompiles(p)
       \/ (log_next_match /\ NextMatch # <<>>)
       \/ (log_prev_match /\ PrevMatch # <<>>)
    /\ log_current_match_line' # <<>>

\* line i is among the lines shown before / after the step
InView(i) ==
    /\ ViewStart(log_messages, log_scroll_offset, log_visible_lines) <= i
    /\ i < ViewEnd(log_messages, log_scroll_offset)

InViewNext(i) ==
    /\ ViewStart(log_messages', log_scroll_offset', log_visible_lines') <= i
    /\ i < ViewEnd(log_messages', log_scroll_offset')

\* min(max(0, len - (i + visible/2 + 1)), max(0, len - visible))
CenteredOffset(i) ==
    LET len == Len(log_messages)
        mid == i + (log_visible_lines \div 2) + 1
    IN Min(IF len > mid THEN len - mid ELSE 0, OffsetBound)

\* C14 (as claimed). When a line i is selected with at least one visible
\* line: if i is shown already the offset and the flag are unchanged,
\* otherwise the offset becomes the centred one and auto-scroll becomes
\* (offset = 0); either way i is shown afterwards and the offset is within
\* [0, max(0, len - visible)].
CenteringKeepsLineInView ==
    [][(SelectsLine /\ log_visible_lines >= 1) =>
           LET i == log_current_match_line'[1]
           IN /\ i < Len(log_messages)
              /\ IF InView(i)
                 THEN /\ log_scroll_offset' = log_scroll_offset
                      /\ log_auto_scroll' = log_auto_scroll
                 ELSE /\ log_scroll_offset' = CenteredOffset(i)
                      /\ log_auto_scroll' = (log_scroll_offset' = 0)
              /\ InViewNext(i)
              /\ log_scroll_offset' <= OffsetBoundNext]_vars

\* C15. An invalid pattern is recoverable in both searches: with a pattern
\* that does not compile, set_log_search_pattern and set_manual_search_pattern
\* in regex mode set the transient message and change nothing else (the
\* installed patterns, the search text, the current match, the offset and
\* the auto-scroll flag stay); the flame search in literal mode never sets
\* the message and installs its pattern.
InvalidPatternIsRecoverable ==
    [][\A p \in Patterns :
           /\ (set_log_search_pattern(p) /\ ~RegexCompiles(p)) =>
                  /\ transient_message' = << <<"Invalid regex: ", p>> >>
                  /\ UNCHANGED <<log_search_pattern, log_search_text,
                                 log_current_match_line, log_scroll_offset,
                                 log_auto_scroll, log_messages,
                                 search_pattern>>
           /\ (set_manual_search_pattern(p, TRUE) /\ ~RegexCompiles(p)) =>
                  /\ transient_message' = << <<"Invalid regex: ", p>> >>
                  /\ UNCHANGED <<search_pattern, log_search_pattern,
                                 log_search_text, log_current_match_line,
                                 log_scroll_offset, log_auto_scroll,
                                 log_messages>>
           /\ set_manual_search_pattern(p, FALSE) =>
                  /\ transient_message' = transient_message
                  /\ Len(search_pattern') = 1
                  /\ search_pattern'[1].pattern = p
                  /\ ~search_pattern'[1].is_regex]_vars

\* C15 witness: the message of the invalid pattern "(" is up while both
\* searches keep the pattern they had, the log search its match and a
\* viewport scrolled away from the tail
InvalidPatternIsRecoverableWitness ==
    /\ transient_message = << <<"Invalid regex: ", <<"(">> >> >>
    /\ log_search_pattern = << <<"m">> >>
    /\ log_current_match_line # <<>>
    /\ log_scroll_offset > 0
    /\ search_pattern # <<>>
    /\ search_pattern[1].pattern = <<"m">>
    /\ search_pattern[1].is_regex

---------------------------------------------------------------------------
(* Further properties of the ingestion pipeline *)

\* the position of tree id in the order of publication; 0 for the tree the
\* view was built with, which was never in the mailbox
PubIndex(id) ==
    IF \E k \in 1..Len(published) : published[k] = id
    THEN CHOOSE k \in 1..Len(published) : published[k] = id
    ELSE 0

\* C16. Displayed trees never go back in time: the trees installed into
\* the view were all published, each one later than the one installed
\* before it, and every change of the displayed tree goes to a tree
\* published later than the one it replaces.
DisplayNeverGoesBack ==
    /\ [](\A i \in 1..Len(installed) :
              /\ PubIndex(installed[i]) >= 1
              /\ \A j \in 1..Len(installed) :
                     i < j => PubIndex(installed[i]) < PubIndex(installed[j]))
    /\ [](\A i, j \in 1..Len(published) :
              i < j => published[i] # published[j])
    /\ [][flamegraph' # flamegraph =>
              PubIndex(flamegraph'.id) > PubIndex(flamegraph.id)]_vars

\* C16 witness: tree 1 was installed, tree 2 was overwritten in the mailbox
\* and tree 3 was installed after it
DisplayNeverGoesBackWitness ==
    /\ installed = <<1, 3>>
    /\ 2 \in overwritten
    /\ flamegraph.id = 3

\* every tree once in the mailbox is installed or overwritten later on
EveryStoredTreeIsHandled ==
    \A id \in 1..MaxSnap :
        (id \in Ids(next_flamegraph)) ~>
            (id \in Range(installed) \/ id \in overwritten)

\* from some point on the tree published last is displayed and the mailbox
\* is empty
LastTreeIsDisplayed ==
    <>[](published # <<>> =>
             /\ flamegraph.id = Last(published)
             /\ next_flamegraph = <<>>)

\* C17 (as claimed). If ticks keep occurring and the view is not frozen
\* forever, every tree stored in the mailbox is eventually installed or
\* overwritten, and once the parser thread stops publishing the tree
\* published last is eventually displayed with the mailbox empty.
HandoffIsLiveUnlessFrozenForever ==
    ([]<>(fgpc = "status") /\ []<>(~freeze)) =>
        (EveryStoredTreeIsHandled /\ LastTreeIsDisplayed)

\* C17 (amended). If ticks that find the view unfrozen keep occurring,
\* every tree stored in the mailbox is eventually installed or overwritten,
\* and once the parser thread stops publishing the tree published last is
\* eventually displayed with the mailbox empty.
HandoffIsLive ==
    ([]<>(fgpc = "take")) =>
        (EveryStoredTreeIsHandled /\ LastTreeIsDisplayed)

\* C17 witness: the sampler has gone quiet after its last snapshot, whose
\* tree went through the mailbox and is displayed; an older tree was
\* overwritten there
HandoffIsLiveWitness ==
    /\ Len(published) = MaxSnap
    /\ overwritten # {}
    /\ flamegraph.id = Last(published)
    /\ next_flamegraph = <<>>
    /\ fgpc = "idle"

---------------------------------------------------------------------------
(* Further properties of the log buffer *)

\* C18 (as claimed). Auto-scroll on implies offset 0 in every reachable
\* state; log_scroll_down and the centring of a selected line turn
\* auto-scroll on exactly when they leave the offset at 0, and
\* log_scroll_up always turns it off.
AutoScrollFollowsOffsetZero ==
    /\ [](log_auto_scroll => log_scroll_offset = 0)
    /\ [][/\ \A n \in 1..MaxScroll :
                 /\ log_scroll_down(n) =>
                        (log_auto_scroll' <=> log_scroll_offset' = 0)
                 /\ log_scroll_up(n) => ~log_auto_scroll'
          /\ SelectsLine =>
                 (log_auto_scroll' <=> log_scroll_offset' = 0)]_vars

\* C18 (amended). Auto-scroll on implies offset 0 in every reachable state;
\* log_scroll_down turns auto-scroll on exactly when it leaves the offset
\* at 0, the centring of a selected line does so when the line was outside
\* the viewport and leaves the flag as it was when the line was shown
\* already, and log_scroll_up always turns it off.
AutoScrollImpliesOffsetZero ==
    /\ [](log_auto_scroll => log_scroll_offset = 0)
    /\ [][/\ \A n \in 1..MaxScroll :
                 /\ log_scroll_down(n) =>
                        (log_auto_scroll' <=> log_scroll_offset' = 0)
                 /\ log_scroll_up(n) => ~log_auto_scroll'
          /\ SelectsLine =>
                 IF InView(log_current_match_line'[1])
                 THEN log_auto_scroll' = log_auto_scroll
                 ELSE log_auto_scroll' <=> log_scroll_offset' = 0]_vars

\* C18 witness: the oldest of several lines is the current match and is the
\* one line shown; the viewport was moved there from the tail and
\* auto-scroll is off
AutoScrollImpliesOffsetZeroWitness ==
    /\ Len(log_messages) >= 3
    /\ log_visible_lines = 1
    /\ log_current_match_line = <<0>>
    /\ log_search_pattern # <<>>
    /\ log_scroll_offset = Len(log_messages) - 1
    /\ ~log_auto_scroll

\* C19 (as claimed). Whenever a current match is set, a pattern is
\* installed, the match is an index of the buffer and the line at that
\* index is matched by the pattern.
CurrentMatchIsAMatch ==
    log_current_match_line # <<>> =>
        /\ log_search_pattern # <<>>
        /\ log_current_match_line[1] < Len(log_messages)
        /\ IsMatch(log_search_pattern[1],
                   log_messages[log_current_match_line[1] + 1])

\* C20 (as claimed). A navigation that finds no further match in its
\* direction (no match after the current one for log_next_match, none
\* before it for log_prev_match, no pattern or an empty buffer included)
\* changes neither the current match nor the offset nor the auto-scroll
\* flag.
NavigationWithoutMatchIsNoOp ==
    [][/\ (log_next_match /\ MatchesAfter = {}) =>
              UNCHANGED <<log_current_match_line, log_scroll_offset,
                          log_auto_scroll>>
       /\ (log_prev_match /\ MatchesBefore = {}) =>
              UNCHANGED <<log_current_match_line, log_scroll_offset,
                          log_auto_scroll>>]_vars
===========================================================================
